---- MODULE Spec2Model ----
(***************************************************************************)
(* solo-board: the Excalidraw adapter (frontend/lib/excalidraw/adapter.ts, *)
(* latest revision), the wrapper component that feeds it, and the autosave *)
(* coordinator of the editor page (frontend/app/editor/[id]/page.tsx,      *)
(* latest revision).                                                       *)
(*                                                                         *)
(* JavaScript values are modelled as strings: "undefined" is the value of  *)
(* an absent property, "null" is JSON null.  A JavaScript object is a      *)
(* sequence of <<key, value>> pairs in insertion order, because            *)
(* JSON.stringify (the dirty comparison) depends on that order.            *)
(***************************************************************************)
EXTENDS Integers, Sequences, FiniteSets, TLC

(***************************************************************************)
(* Bounds of the model.                                                    *)
(***************************************************************************)
MaxInFlight == 2
MaxGrace == 1
MaxSwitches == 1

(***************************************************************************)
(* JavaScript objects as ordered key/value sequences.                      *)
(***************************************************************************)
Keys(o) == {o[i][1] : i \in 1..Len(o)}

Get(o, k) ==
  IF k \in Keys(o) THEN o[CHOOSE i \in 1..Len(o) : o[i][1] = k][2] ELSE "undefined"

\* o[k] = v: an existing key keeps its position, a new key is appended.
Put(o, k, v) ==
  IF k \in Keys(o)
    THEN [i \in 1..Len(o) |-> IF o[i][1] = k THEN <<k, v>> ELSE o[i]]
    ELSE Append(o, <<k, v>>)

\* { ...a, ...b }
RECURSIVE Spread(_, _)
Spread(a, b) == IF b = <<>> THEN a ELSE Spread(Put(a, b[1][1], b[1][2]), Tail(b))

(***************************************************************************)
(* String helpers: String.prototype.toLowerCase and slice(-2) over the     *)
(* alphabet the colour values of the model use.                            *)
(***************************************************************************)
LowerChar(c) ==
  CASE c = "A" -> "a" [] c = "B" -> "b" [] c = "C" -> "c" [] c = "D" -> "d"
    [] c = "E" -> "e" [] c = "F" -> "f" [] c = "T" -> "t" [] c = "R" -> "r"
    [] c = "N" -> "n" [] c = "S" -> "s" [] c = "P" -> "p"
    [] OTHER -> c

RECURSIVE toLowerCase(_)
toLowerCase(s) ==
  IF Len(s) = 0 THEN s
  ELSE LowerChar(SubSeq(s, 1, 1)) \o toLowerCase(SubSeq(s, 2, Len(s)))

\* s.slice(-2)
SliceLast2(s) == IF Len(s) <= 2 THEN s ELSE SubSeq(s, Len(s) - 1, Len(s))

\* values of the model that are JavaScript strings (typeof v === 'string');
\* the others stand for null, undefined, booleans, numbers, objects, arrays.
NonStrings ==
  {"undefined", "null", "true", "false", "20", "obj0", "obj1", "arr0", "arr1", "map0", "map1"}
IsString(v) == v \notin NonStrings

(***************************************************************************)
(* Persisted blobs.  kind: "null" (no content), "empty" (the empty         *)
(* string), "bad" (text that JSON.parse rejects), "json" (an object with   *)
(* the fields below; an absent field is "undefined" or the empty           *)
(* sequence).                                                              *)
(***************************************************************************)
NATIVE_SCHEMA == "solo-board/excalidraw-content"

Json(schema, ver, els, app, files) ==
  [kind |-> "json", schema |-> schema, schemaVersion |-> ver,
   elements |-> els, appState |-> app, files |-> files]

NullBlob == [Json("undefined", "undefined", <<>>, <<>>, <<>>) EXCEPT !.kind = "null"]
EmptyBlob == [NullBlob EXCEPT !.kind = "empty"]
BadBlob == [NullBlob EXCEPT !.kind = "bad"]
\* '{}' : what the editor page passes for a file without content
BraceBlob == Json("undefined", "undefined", <<>>, <<>>, <<>>)

(***************************************************************************)
(* The restore() pass of the GUI library: text elements get their derived  *)
(* fields ("t" becomes "T"), the view state is rebuilt over the library's  *)
(* default keys (a supplied value wins, collaborators is a Map).           *)
(***************************************************************************)
DefaultAppState ==
  << <<"theme", "light">>, <<"collaborators", "map0">>,
     <<"viewBackgroundColor", "#ffffff">>, <<"gridSize", "null">> >>

restoreElement(e) == IF e = "t" THEN "T" ELSE e

restore(els, app, files) ==
  [elements |-> [i \in 1..Len(els) |-> restoreElement(els[i])],
   appState |-> [i \in 1..Len(DefaultAppState) |->
                   LET k == DefaultAppState[i][1]
                   IN  IF Get(app, k) # "undefined" THEN <<k, Get(app, k)>>
                       ELSE DefaultAppState[i]],
   files |-> files]

(***************************************************************************)
(* Content codec (adapter.ts).                                             *)
(***************************************************************************)
\* a coercion that passes a Map through as if it were an array
collaboratorsAsArrayKeepingMaps(c) ==
  CASE c \in {"arr0", "arr1", "map0", "map1"} -> c
    [] c = "obj1" -> "arr1"
    [] OTHER -> "arr0"

\* Array.isArray(c) ? c : Object.values(c ?? {})
collaboratorsAsArray(c) ==
  CASE c \in {"arr0", "arr1"} -> c
    [] c = "obj1" -> "arr1"
    [] OTHER -> "arr0"

coerceCollaborators(app) ==
  IF Get(app, "collaborators") # "undefined"
    THEN Put(app, "collaborators", collaboratorsAsArray(Get(app, "collaborators")))
    ELSE app

isMissingOrTransparent(vbc) ==
  \/ vbc \in {"undefined", "null"}
  \/ vbc = ""
  \/ (IsString(vbc) /\ toLowerCase(vbc) = "transparent")
  \/ (IsString(vbc) /\ Len(vbc) >= 2 /\ toLowerCase(SliceLast2(vbc)) = "00")

\* a normalisation that also makes every kept colour carry an alpha byte
normalizeAppendingAlpha(app) ==
  LET vbc == Get(app, "viewBackgroundColor")
      a1 == IF isMissingOrTransparent(vbc)
              THEN Put(app, "viewBackgroundColor", "#ffffff")
              ELSE Put(app, "viewBackgroundColor", vbc \o "ff")
      a2 == IF Get(app, "exportBackground") \in {"undefined", "null"}
              THEN Put(a1, "exportBackground", "true") ELSE a1
  IN  Put(a2, "gridSize", "null")

normalizeAppStateForCanvas(app) ==
  LET a1 == IF isMissingOrTransparent(Get(app, "viewBackgroundColor"))
              THEN Put(app, "viewBackgroundColor", "#ffffff") ELSE app
      a2 == IF Get(app, "exportBackground") \in {"undefined", "null"}
              THEN Put(a1, "exportBackground", "true") ELSE a1
  IN  Put(a2, "gridSize", "null")

\* a detection that looks at the schema tag only
isOurSchemaTagOnly(b) == b.kind = "json" /\ b.schema = NATIVE_SCHEMA

isOurSchema(b) ==
  b.kind = "json" /\ b.schema = NATIVE_SCHEMA /\ b.schemaVersion = "1"

\* a hydration condition that sends every foreign blob through restore()
needsRestoreAnyForeign(b) == ~isOurSchema(b)

\* the hydration condition of load()
needsRestore(b) ==
  /\ ~isOurSchema(b)
  /\ (Len(b.elements) > 0 \/ Len(b.appState) > 0 \/ Len(b.files) > 0)

(***************************************************************************)
(* JSON.stringify of a view state: a property whose value is undefined is  *)
(* left out, a Map is written as {}.                                       *)
(***************************************************************************)
jsonValue(v) == IF v \in {"map0", "map1"} THEN "obj0" ELSE v

RECURSIVE stringifyObject(_)
stringifyObject(o) ==
  IF o = <<>> THEN <<>>
  ELSE IF o[1][2] = "undefined" THEN stringifyObject(Tail(o))
  ELSE << <<o[1][1], jsonValue(o[1][2])>> >> \o stringifyObject(Tail(o))

\* JSON.stringify({ elements, appState, files })
createSnapshotFromParts(els, app, files) == <<els, stringifyObject(app), files>>

(***************************************************************************)
(* The GUI instance (ExcalidrawApiLike): it holds elements, view state and *)
(* files; updateScene replaces the elements and files it is given and      *)
(* merges the view-state keys it is given into the view state it holds.    *)
(***************************************************************************)
Scene(els, app, files) == [elements |-> els, appState |-> app, files |-> files]

updateScene(g, els, app, files) == Scene(els, Spread(g.appState, app), files)

\* updateScene({ appState }) : no elements, no files
updateSceneAppState(g, app) == [g EXCEPT !.appState = Spread(g.appState, app)]

snapshotOf(g) == createSnapshotFromParts(g.elements, g.appState, g.files)

(***************************************************************************)
(* Adapter state: ExcalidrawAdapterImpl's fields.  api is "null" or names  *)
(* the instance it refers to.  The operations below are functions from     *)
(* the adapter a and the instance g it refers to, to the new adapter, the  *)
(* new instance and the events emitted, in order.                          *)
(***************************************************************************)
NoSnapshot == << <<"none">>, <<>>, <<>> >>
NoPending == [NullBlob EXCEPT !.kind = "none"]

AdapterInit ==
  [api |-> "null", dirty |-> FALSE, pendingContent |-> NoPending,
   lastSavedSnapshot |-> NoSnapshot]

ChangeEvt(d) == [type |-> "change", dirty |-> d]
ReadyEvt == [type |-> "ready", dirty |-> FALSE]
ErrorEvt == [type |-> "error", dirty |-> FALSE]

Out(a, g, ev) == [ad |-> a, gui |-> g, ev |-> ev]

\* an unbound load() that also declares the adapter clean
loadUnboundClearing(a, g, b) ==
  Out([a EXCEPT !.pendingContent = IF b.kind = "null" THEN NoPending ELSE b,
                !.dirty = FALSE],
      g, <<ChangeEvt(FALSE)>>)

\* load(), unbound: this.pendingContent = content == null ? null : text
loadUnbound(a, g, b) ==
  Out([a EXCEPT !.pendingContent = IF b.kind = "null" THEN NoPending ELSE b], g, <<>>)

\* a load() that emits its change event only when the dirty flag flips
loadApplyOnFlip(a, g, els, app0, files) ==
  LET app == normalizeAppStateForCanvas(coerceCollaborators(app0))
  IN  Out([a EXCEPT !.lastSavedSnapshot = createSnapshotFromParts(els, app, files),
                    !.pendingContent = NoPending,
                    !.dirty = FALSE],
          updateScene(g, els, app, files),
          IF a.dirty THEN <<ChangeEvt(FALSE)>> ELSE <<>>)

\* load(), bound, from the scene write on: parts are the (restored) parts
loadApply(a, g, els, app0, files) ==
  LET app == normalizeAppStateForCanvas(coerceCollaborators(app0))
  IN  Out([a EXCEPT !.lastSavedSnapshot = createSnapshotFromParts(els, app, files),
                    !.pendingContent = NoPending,
                    !.dirty = FALSE],
          updateScene(g, els, app, files),
          <<ChangeEvt(FALSE)>>)

\* a failing load() that falls back to the empty scene
loadFailResetting(a, g) ==
  Out([a EXCEPT !.dirty = FALSE], updateScene(g, <<>>, <<>>, <<>>), <<ErrorEvt>>)

\* load(): the catch block
loadFail(a, g) == Out(a, g, <<ErrorEvt>>)

\* a markSaved() that clears the flag and keeps the old baseline
markSavedFlagOnly(a, g) ==
  IF a.api = "null" THEN Out(a, g, <<>>)
  ELSE Out([a EXCEPT !.dirty = FALSE], g, <<ChangeEvt(FALSE)>>)

markSaved(a, g) ==
  IF a.api = "null" THEN Out(a, g, <<>>)
  ELSE Out([a EXCEPT !.lastSavedSnapshot = snapshotOf(g), !.dirty = FALSE],
           g, <<ChangeEvt(FALSE)>>)

\* a handleChange() that reports the recomputed value on every call
handleChangeAlwaysEmits(a, g) ==
  IF a.api = "null" THEN Out(a, g, <<>>)
  ELSE LET isDirty == snapshotOf(g) # a.lastSavedSnapshot
       IN  Out([a EXCEPT !.dirty = isDirty], g, <<ChangeEvt(isDirty)>>)

handleChange(a, g) ==
  IF a.api = "null" THEN Out(a, g, <<>>)
  ELSE LET isDirty == snapshotOf(g) # a.lastSavedSnapshot
       IN  IF isDirty # a.dirty
             THEN Out([a EXCEPT !.dirty = isDirty], g, <<ChangeEvt(isDirty)>>)
             ELSE Out(a, g, <<>>)

\* a setTheme() that takes the themed scene as the new saved baseline
setThemeRebasing(a, g, theme) ==
  IF a.api = "null" THEN Out(a, g, <<>>)
  ELSE LET g2 == updateSceneAppState(g, << <<"theme", theme>> >>)
       IN  Out([a EXCEPT !.lastSavedSnapshot = snapshotOf(g2)], g2, <<>>)

setTheme(a, g, theme) ==
  IF a.api = "null" THEN Out(a, g, <<>>)
  ELSE Out(a, updateSceneAppState(g, << <<"theme", theme>> >>), <<>>)

\* serialize(): the envelope without updatedAt; the caller checks a.api
serialize(g) == Json(NATIVE_SCHEMA, "1", g.elements, g.appState, g.files)

\* a serialize() that reads through an absent instance instead of throwing
serializeCallLenient(a, g, now) ==
  [threw |-> FALSE, value |-> [updatedAt |-> now] @@ serialize(g)]

\* a call of serialize() at time now: it throws 'API not ready' on an unbound
\* adapter, and else returns the envelope tagged with the time
serializeCall(a, g, now) ==
  IF a.api = "null" THEN [threw |-> TRUE, value |-> NoPending]
  ELSE [threw |-> FALSE, value |-> [updatedAt |-> now] @@ serialize(g)]

\* what the instance's scrollToContent does: the property is absent, the
\* call works, it throws when given the options argument, it throws always
ScrollKinds == {"absent", "works", "rejectsOptions", "fails"}

\* scrollToContentCenter() on an instance of kind k: the number of calls of
\* scrollToContent made and whether the exception of the last reaches the
\* caller (the call in the catch block is not guarded)
scrollToContentCenter(a, k) ==
  IF a.api = "null" \/ k = "absent" THEN [calls |-> 0, threw |-> FALSE]
  ELSE IF k = "works" THEN [calls |-> 1, threw |-> FALSE]
  ELSE [calls |-> 2, threw |-> (k = "fails")]

\* JSON.stringify(serialized), the text the editor page writes to the store
stringifyContent(b) == [b EXCEPT !.appState = stringifyObject(@)]

(***************************************************************************)
(* Backend: the folder and file services over the database.  A row is      *)
(* "free" (its id was never generated), "live" or "gone" (deleted).  NULL  *)
(* is SQL NULL and Undefined an argument the request does not carry.  A    *)
(* service call is a chain of database calls; between two of them other    *)
(* requests run, so each operator below does one database call of a        *)
(* request r on the database d and says where the request goes next.       *)
(***************************************************************************)
MaxFolders == 3
MaxFiles == 1
MaxReqs == 2
MaxCalls == 3

FolderIds == 1..MaxFolders
FileIds == 1..MaxFiles
NULL == 0
Undefined == -1

\* String.prototype.trim on the names requests carry
trim(s) == IF s = "a " THEN "a" ELSE s

FreeFolder == [state |-> "free", parentId |-> NULL, name |-> ""]
FreeFile == [state |-> "free", folderId |-> NULL, name |-> ""]

\* a database with two top-level folders
InitDb ==
  [folders |-> [i \in FolderIds |->
                  IF i = 1 THEN [state |-> "live", parentId |-> NULL, name |-> "a"]
                  ELSE IF i = 2 THEN [state |-> "live", parentId |-> NULL, name |-> "b"]
                  ELSE FreeFolder],
   files |-> [i \in FileIds |-> FreeFile]]

\* findUnique({ where: { id } }) on table t finds a row
live(t, id) == id \in DOMAIN t /\ t[id].state = "live"

\* generateUUID() returns an id no row of t ever had
freeIds(t) == {i \in DOMAIN t : t[i].state = "free"}

\* getFolderDepth of a folder that exists
getFolderDepth(d, id) == IF d.folders[id].parentId # NULL THEN 2 ELSE 1

\* the rows of t whose column key (parentId, folderId) is id
rowsUnder(t, key, id) == {i \in DOMAIN t : live(t, i) /\ t[i][key] = id}

\* findFirst({ where: { [key]: id, name } }) on t: the oldest such row's id,
\* or NULL
findFirst(t, key, id, name) ==
  LET S == {i \in rowsUnder(t, key, id) : t[i].name = name}
  IN  IF S = {} THEN NULL ELSE CHOOSE i \in S : \A j \in S : i <= j

\* the schema's constraints on row id of t with parent (or folder) p and
\* this name: the foreign key to folders, and the unique index on (key,
\* name), in which SQLite takes two NULLs to be different
rowAllowed(d, t, key, id, p, name) ==
  /\ p = NULL \/ live(d.folders, p)
  /\ p = NULL \/ findFirst([t EXCEPT ![id].state = "free"], key, p, name) = NULL

\* DELETE FROM folders WHERE id: both foreign keys are ON DELETE SET NULL
deleteFolderRow(d, id) ==
  [folders |-> [i \in FolderIds |->
                  IF i = id THEN [state |-> "gone", parentId |-> NULL, name |-> ""]
                  ELSE IF d.folders[i].parentId = id
                    THEN [d.folders[i] EXCEPT !.parentId = NULL]
                    ELSE d.folders[i]],
   files |-> [i \in FileIds |->
                IF d.files[i].folderId = id
                  THEN [d.files[i] EXCEPT !.folderId = NULL]
                  ELSE d.files[i]]]

\* a request: the service method, its arguments, the next database call
\* (pc), the parent or folder and the name of the row as first read (seen,
\* seenName) and the folder isDescendant looks at next (cursor)
Idle ==
  [kind |-> "idle", id |-> NULL, parent |-> Undefined, name |-> "", pc |-> "-",
   seen |-> NULL, seenName |-> "", cursor |-> NULL]

\* the request goes on to the database call pc; it ends with a result
Pend(d, r, pc) == [db |-> d, req |-> [r EXCEPT !.pc = pc], result |-> "pending"]
Done(d, result) == [db |-> d, req |-> Idle, result |-> result]

\* createFolder: duplicate check, then prisma.folder.create
createFolderDup(d, r) ==
  IF findFirst(d.folders, "parentId", r.parent, trim(r.name)) # NULL THEN Done(d, "conflict")
  ELSE Pend(d, r, "create")

createFolder(d, r) ==
  IF r.pc = "start"
    THEN IF trim(r.name) = "" THEN Done(d, "badRequest")
         ELSE IF r.parent # NULL
           THEN IF ~live(d.folders, r.parent) THEN Done(d, "notFound")
                ELSE IF getFolderDepth(d, r.parent) = 2 THEN Done(d, "tooDeep")
                ELSE Pend(d, r, "dup")
           ELSE createFolderDup(d, r)
  ELSE IF r.pc = "dup" THEN createFolderDup(d, r)
  ELSE LET id == CHOOSE i \in freeIds(d.folders) : TRUE
       IN  IF ~rowAllowed(d, d.folders, "parentId", id, r.parent, trim(r.name))
             THEN Done(d, "dbError")
             ELSE Done([d EXCEPT !.folders[id] =
                          [state |-> "live", parentId |-> r.parent, name |-> trim(r.name)]],
                       "ok")

\* one call of isDescendant(folderId, cursor)
isDescendant(d, r) ==
  IF ~live(d.folders, r.cursor) \/ d.folders[r.cursor].parentId = NULL
    THEN Pend(d, r, "target")
  ELSE IF d.folders[r.cursor].parentId = r.id THEN Done(d, "intoDescendant")
  ELSE Pend(d, [r EXCEPT !.cursor = d.folders[r.cursor].parentId], "desc")

\* updateFolder: updates.name is r.name (Undefined as ""), updates.parent_id
\* is r.parent
updateFolder(d, r) ==
  LET afterMove == IF r.name # "" THEN "dup" ELSE "update"
      newParentId == IF r.parent # Undefined THEN r.parent ELSE r.seen
  IN  IF r.pc = "start"
        THEN IF ~live(d.folders, r.id) THEN Done(d, "notFound")
             ELSE IF r.parent \in FolderIds
               THEN IF r.parent = r.id THEN Done(d, "intoSelf")
                    ELSE Pend(d, [r EXCEPT !.seen = d.folders[r.id].parentId,
                                           !.cursor = r.parent], "desc")
               ELSE Pend(d, [r EXCEPT !.seen = d.folders[r.id].parentId], afterMove)
      ELSE IF r.pc = "desc" THEN isDescendant(d, r)
      ELSE IF r.pc = "target"
        THEN IF ~live(d.folders, r.parent) THEN Done(d, "notFound") ELSE Pend(d, r, "depth")
      ELSE IF r.pc = "depth"
        THEN IF ~live(d.folders, r.parent) THEN Done(d, "notFound")
             ELSE IF getFolderDepth(d, r.parent) = 2 THEN Done(d, "tooDeep")
             ELSE Pend(d, r, "count")
      ELSE IF r.pc = "count"
        THEN IF rowsUnder(d.folders, "parentId", r.id) # {} THEN Done(d, "hasChildren")
             ELSE Pend(d, r, afterMove)
      ELSE IF r.pc = "dup"
        THEN LET existing == findFirst(d.folders, "parentId", newParentId, trim(r.name))
             IN  IF existing # NULL /\ existing # r.id THEN Done(d, "conflict")
                 ELSE Pend(d, r, "update")
      ELSE IF ~live(d.folders, r.id) THEN Done(d, "dbError")
      ELSE LET row == d.folders[r.id]
               name == IF r.name # "" THEN trim(r.name) ELSE row.name
               parentId == IF r.parent # Undefined THEN r.parent ELSE row.parentId
           IN  IF ~rowAllowed(d, d.folders, "parentId", r.id, parentId, name)
                 THEN Done(d, "dbError")
                 ELSE Done([d EXCEPT !.folders[r.id] =
                              [state |-> "live", parentId |-> parentId, name |-> name]],
                           "ok")

deleteFolder(d, r) ==
  IF r.pc = "start"
    THEN IF ~live(d.folders, r.id) THEN Done(d, "notFound")
         ELSE IF \/ rowsUnder(d.folders, "parentId", r.id) # {}
                 \/ rowsUnder(d.files, "folderId", r.id) # {}
           THEN Done(d, "notEmpty")
           ELSE Pend(d, r, "delete")
  ELSE IF ~live(d.folders, r.id) THEN Done(d, "dbError")
  ELSE Done(deleteFolderRow(d, r.id), "ok")

\* createFile: folderId is r.parent
createFile(d, r) ==
  IF r.pc = "start"
    THEN IF trim(r.name) = "" THEN Done(d, "badRequest")
         ELSE IF r.parent = NULL THEN Done(d, "badRequest")
         ELSE IF ~live(d.folders, r.parent) THEN Done(d, "notFound")
         ELSE Pend(d, r, "dup")
  ELSE IF r.pc = "dup"
    THEN IF findFirst(d.files, "folderId", r.parent, trim(r.name)) # NULL
           THEN Done(d, "conflict")
           ELSE Pend(d, r, "create")
  ELSE LET id == CHOOSE i \in freeIds(d.files) : TRUE
       IN  IF ~rowAllowed(d, d.files, "folderId", id, r.parent, trim(r.name))
             THEN Done(d, "dbError")
             ELSE Done([d EXCEPT !.files[id] =
                          [state |-> "live", folderId |-> r.parent, name |-> trim(r.name)]],
                       "ok")

\* updateFile: updates.folder_id is r.parent, updates.name is r.name
\* (Undefined as ""); the duplicate check uses the row as read at the start
updateFile(d, r) ==
  LET newFolderId == IF r.parent # Undefined THEN r.parent ELSE r.seen
      newName == IF r.name # "" THEN trim(r.name) ELSE r.seenName
  IN  IF r.pc = "start"
        THEN IF ~live(d.files, r.id) THEN Done(d, "notFound")
             ELSE IF r.parent = NULL THEN Done(d, "badRequest")
             ELSE LET r1 == [r EXCEPT !.seen = d.files[r.id].folderId,
                                      !.seenName = d.files[r.id].name]
                  IN  IF r.parent # Undefined THEN Pend(d, r1, "target")
                      ELSE IF r.name # "" THEN Pend(d, r1, "dup")
                      ELSE Pend(d, r1, "update")
      ELSE IF r.pc = "target"
        THEN IF ~live(d.folders, r.parent) THEN Done(d, "notFound") ELSE Pend(d, r, "dup")
      ELSE IF r.pc = "dup"
        THEN LET existing == findFirst(d.files, "folderId", newFolderId, newName)
             IN  IF existing # NULL /\ existing # r.id THEN Done(d, "conflict")
                 ELSE Pend(d, r, "update")
      ELSE IF ~live(d.files, r.id) THEN Done(d, "dbError")
      ELSE LET row == d.files[r.id]
               name == IF r.name # "" THEN trim(r.name) ELSE row.name
               folderId == IF r.parent # Undefined THEN r.parent ELSE row.folderId
           IN  IF ~rowAllowed(d, d.files, "folderId", r.id, folderId, name)
                 THEN Done(d, "dbError")
                 ELSE Done([d EXCEPT !.files[r.id] =
                              [state |-> "live", folderId |-> folderId, name |-> name]],
                           "ok")

\* the next database call of request r
serviceCall(d, r) ==
  IF r.kind = "createFolder" THEN createFolder(d, r)
  ELSE IF r.kind = "updateFolder" THEN updateFolder(d, r)
  ELSE IF r.kind = "deleteFolder" THEN deleteFolder(d, r)
  ELSE IF r.kind = "createFile" THEN createFile(d, r)
  ELSE updateFile(d, r)

(***************************************************************************)
(* State.                                                                  *)
(*   ad        the adapter's fields                                        *)
(*   gui       the GUI instance the page shows                             *)
(*   deferred  bindApi's setTimeout(0) callbacks not yet run (their blob)  *)
(*   hyd       load() calls suspended at `await import(...)`, in order     *)
(*   ev        the events the last step emitted, in order                  *)
(*   op        the last step: its name, the blob it was given, and for a   *)
(*             load whether nothing outside the blob made it fail (the     *)
(*             instance was bound and restore() did not throw); for a      *)
(*             handleChange() call the name of the step before it (after); *)
(*             whether the call threw or rejected (threw); for serialize() *)
(*             the envelope it returned (blob)                             *)
(*   atLoad    the instance's scene right after the last load that wrote   *)
(*             it, while only edits reported through handleChange()        *)
(*             followed; NoScene otherwise                                 *)
(*                                                                         *)
(* Editor page (EditorPage) and wrapper (ExcalidrawWrapper):               *)
(*   mounted          isMountedRef.current                                 *)
(*   fileId           the route parameter                                  *)
(*   currentFileId, loading, dirty, saving, content, pendingBoardId,       *)
(*   lastSavedAt      the page's React state                               *)
(*   pendingAutoSave  pendingAutoSaveRef.current                           *)
(*   timer            ticks left on the debounce timer, NoTimer if none    *)
(*   grace            the grace-delay timers: the document their closure   *)
(*                    addresses and the ticks left                         *)
(*   inflight         fileApi.update calls not yet answered: the document, *)
(*                    the text sent, and whether the user has edited the   *)
(*                    scene since                                          *)
(*   fetches          fileApi.getById calls not yet answered               *)
(*   store            the document store: content per document             *)
(*   navTo            the target of a router.push not yet applied          *)
(*   raf              the wrapper's two-frame fallback load is scheduled   *)
(*   old              the scene of the instance of an unmounted wrapper,   *)
(*                    which the adapter still refers to (api = "old")      *)
(*   switches         the board switches made so far                       *)
(*   owed             "due" once a save has succeeded whose text was older *)
(*                    than the scene because of an edit made during its    *)
(*                    flight; "fired" when a save has started since,       *)
(*                    "twice" when a second one has; "no" after an edit    *)
(* Event subscriptions and the codec's pure functions:                     *)
(*   listeners        the adapter's eventListeners, a Set of callbacks, in *)
(*                    its iteration (insertion) order                      *)
(*   subs             the onEvent() calls made so far: the callback given  *)
(*                    and whether the returned unsubscribe function has    *)
(*                    been called                                          *)
(*   delivered        the callback invocations of the last step, in order  *)
(*   codec            the codec function applied last, its argument and    *)
(*                    its result                                           *)
(* Backend:                                                                *)
(*   db               the folders and files tables                         *)
(*   reqs             the requests in flight, each waiting for the answer  *)
(*                    of a database call                                   *)
(*   hist             the requests received so far (calls), whether one    *)
(*                    arrived while another was in flight (overlapped),    *)
(*                    and the method and outcome of the last step          *)
(***************************************************************************)
VARIABLES ad, gui, deferred, hyd, ev, op, atLoad,
          mounted, fileId, currentFileId, loading, dirty, saving, content,
          pendingBoardId, lastSavedAt, pendingAutoSave, timer, grace, inflight,
          fetches, store, navTo, raf, old, owed, switches,
          listeners, subs, delivered, codec,
          db, reqs, hist


sideVars == <<listeners, subs, delivered, codec, db, reqs, hist>>

adapterVars == <<ad, gui, deferred, hyd, ev, op, atLoad>>

pageVars ==
  <<mounted, fileId, currentFileId, loading, dirty, saving, content,
    pendingBoardId, lastSavedAt, pendingAutoSave, timer, grace, inflight,
    fetches, store, navTo, raf, old, owed, switches>>

vars ==
  <<ad, gui, deferred, hyd, ev, op, atLoad,
    mounted, fileId, currentFileId, loading, dirty, saving, content,
    pendingBoardId, lastSavedAt, pendingAutoSave, timer, grace, inflight,
    fetches, store, navTo, raf, old, owed, switches,
    listeners, subs, delivered, codec,
    db, reqs, hist>>

NoScene == Scene(<<"none">>, <<>>, <<>>)
Op(name, blob, ok) ==
  [name |-> name, blob |-> blob, ok |-> ok, after |-> "-", threw |-> FALSE]

MaxElements == 1
MaxTasks == 1

\* view state of a fresh GUI instance
FreshScene == Scene(<<>>, DefaultAppState, <<>>)

(***************************************************************************)
(* load(content) on a bound adapter, up to its first suspension point.     *)
(* The result is either the finished load or, for a foreign non-trivial    *)
(* blob, the adapter unchanged and the blob queued for hydration.          *)
(***************************************************************************)
parses(b) == b.kind # "bad"

\* the synchronous part of load(): r.suspended says the call is now waiting
loadSync(a, g, b) ==
  IF a.api = "null" THEN [out |-> loadUnbound(a, g, b), suspended |-> FALSE, wrote |-> FALSE]
  ELSE IF ~parses(b) THEN [out |-> loadFail(a, g), suspended |-> FALSE, wrote |-> FALSE]
  ELSE IF needsRestore(b) THEN [out |-> Out(a, g, <<>>), suspended |-> TRUE, wrote |-> FALSE]
  ELSE [out |-> loadApply(a, g, b.elements, b.appState, b.files),
        suspended |-> FALSE, wrote |-> TRUE]

\* a load() whose scene write is outside the try block
loadResumeUnguarded(a, g, b, restoreOk) ==
  IF a.api = "null"
    THEN [out |-> Out(a, g, <<>>), wrote |-> FALSE, threw |-> TRUE]
    ELSE IF ~restoreOk
      THEN [out |-> loadFail(a, g), wrote |-> FALSE, threw |-> FALSE]
      ELSE LET r == restore(b.elements, b.appState, b.files)
           IN  [out |-> loadApply(a, g, r.elements, r.appState, r.files),
                wrote |-> TRUE, threw |-> FALSE]

\* the rest of load() after `await import(...)`; fails when restore() throws
\* or when the instance was unbound meanwhile (this.api.updateScene on null
\* throws inside the try block); threw says the promise was rejected
loadResume(a, g, b, restoreOk) ==
  IF ~restoreOk \/ a.api = "null"
    THEN [out |-> loadFail(a, g), wrote |-> FALSE, threw |-> FALSE]
    ELSE LET r == restore(b.elements, b.appState, b.files)
         IN  [out |-> loadApply(a, g, r.elements, r.appState, r.files),
              wrote |-> TRUE, threw |-> FALSE]

\* blobs the adapter specification loads
SampleAppState ==
  << <<"viewBackgroundColor", "#ffffff00">>, <<"gridSize", "20">>,
     <<"collaborators", "obj0">> >>

Blobs ==
  { NullBlob, BadBlob, BraceBlob,
    Json(NATIVE_SCHEMA, "1", <<"r">>, SampleAppState, <<>>),
    Json("undefined", "undefined", <<"t">>, << <<"viewBackgroundColor", "transparent">> >>, <<>>) }

(***************************************************************************)
(* Adapter operations as steps.                                            *)
(***************************************************************************)
Load(b) ==
  LET r == loadSync(ad, gui, b)
  IN  /\ r.suspended => Len(hyd) < MaxTasks
      /\ ad' = r.out.ad
      /\ gui' = r.out.gui
      /\ ev' = r.out.ev
      /\ hyd' = IF r.suspended THEN Append(hyd, [blob |-> b, ready |-> FALSE]) ELSE hyd
      /\ op' = Op(IF r.suspended THEN "loadSuspend" ELSE "load", b, ad.api # "null")
      /\ atLoad' = IF r.wrote THEN r.out.gui ELSE atLoad
      /\ UNCHANGED deferred

\* the continuation of the oldest suspended load; a load started by
\* bindApi's deferred callback emits ready when it has finished
LoadResume(restoreOk) ==
  /\ hyd # <<>>
  /\ LET h == Head(hyd)
         r == loadResume(ad, gui, h.blob, restoreOk)
     IN  /\ ad' = r.out.ad
         /\ gui' = r.out.gui
         /\ ev' = r.out.ev \o (IF h.ready THEN <<ReadyEvt>> ELSE <<>>)
         /\ op' = [Op("loadResume", h.blob, restoreOk /\ ad.api # "null")
                    EXCEPT !.threw = r.threw]
         /\ atLoad' = IF r.wrote THEN r.out.gui ELSE atLoad
  /\ hyd' = Tail(hyd)
  /\ UNCHANGED deferred

\* a bindApi() that forgets the dirty state when the instance goes
bindApiResetting(a, inst) ==
  IF inst = "null" THEN [AdapterInit EXCEPT !.pendingContent = a.pendingContent]
  ELSE [a EXCEPT !.api = inst, !.pendingContent = NoPending]

\* the adapter's fields after bindApi(inst)
bindApi(a, inst) ==
  [a EXCEPT !.api = inst, !.pendingContent = IF inst # "null" THEN NoPending ELSE @]

BindApi(inst) ==
  /\ ad.pendingContent # NoPending /\ inst # "null" => Len(deferred) < MaxTasks
  /\ ad' = bindApi(ad, inst)
  /\ IF inst # "null" /\ ad.pendingContent # NoPending
       THEN /\ deferred' = Append(deferred, ad.pendingContent)
            /\ ev' = <<>>
       ELSE /\ deferred' = deferred
            /\ ev' = IF inst # "null" THEN <<ReadyEvt>> ELSE <<>>
  /\ op' = Op("bindApi", NoPending, FALSE)
  /\ atLoad' = NoScene
  /\ UNCHANGED <<gui, hyd>>

\* the setTimeout(0) callback of bindApi
DeferredLoad ==
  /\ deferred # <<>>
  /\ LET b == Head(deferred)
         r == IF ad.api = "null"
                THEN [out |-> Out(ad, gui, <<>>), suspended |-> FALSE, wrote |-> FALSE]
                ELSE loadSync(ad, gui, b)
     IN  /\ r.suspended => Len(hyd) < MaxTasks
         /\ ad' = r.out.ad
         /\ gui' = r.out.gui
         /\ ev' = r.out.ev \o (IF r.suspended THEN <<>> ELSE <<ReadyEvt>>)
         /\ hyd' = IF r.suspended THEN Append(hyd, [blob |-> b, ready |-> TRUE]) ELSE hyd
         /\ op' = Op(IF r.suspended THEN "deferredSuspend" ELSE "deferred", b, ad.api # "null")
         /\ atLoad' = IF r.wrote THEN r.out.gui ELSE atLoad
  /\ deferred' = Tail(deferred)

MarkSaved ==
  LET r == markSaved(ad, gui)
  IN  /\ ad' = r.ad
      /\ ev' = r.ev
      /\ op' = Op("markSaved", NoPending, FALSE)
      /\ atLoad' = NoScene
      /\ UNCHANGED <<gui, deferred, hyd>>

HandleChange ==
  LET r == handleChange(ad, gui)
  IN  /\ ad' = r.ad
      /\ ev' = r.ev
      /\ op' = [Op("handleChange", NoPending, FALSE) EXCEPT !.after = op.name]
      /\ UNCHANGED <<gui, deferred, hyd, atLoad>>

\* scrollToContentCenter() called by a client that catches its exception
ScrollToContentCenter(k) ==
  LET r == scrollToContentCenter(ad, k)
  IN  /\ op' = [Op("scrollToContentCenter", NoPending, r.calls > 0) EXCEPT !.threw = r.threw]
      /\ ev' = <<>>
      /\ UNCHANGED <<ad, gui, deferred, hyd, atLoad>>

\* Math.floor(Date.now() / 1000) at two moments
Clock == {"t1", "t2"}

\* serialize() called by a client that catches its exception
Serialize ==
  \E now \in Clock :
  LET r == serializeCall(ad, gui, now)
  IN  /\ op' = [Op("serialize", r.value, FALSE) EXCEPT !.threw = r.threw]
      /\ ev' = <<>>
      /\ UNCHANGED <<ad, gui, deferred, hyd, atLoad>>

SetTheme(theme) ==
  LET r == setTheme(ad, gui, theme)
  IN  /\ ad' = r.ad
      /\ gui' = r.gui
      /\ ev' = r.ev
      /\ op' = [Op("setTheme", NoPending, FALSE)
                  EXCEPT !.after = IF op.name \in {"load", "loadResume", "markSaved"}
                                     THEN op.name ELSE "-"]
      /\ atLoad' = IF r.gui = gui THEN atLoad ELSE NoScene
      /\ UNCHANGED <<deferred, hyd>>

(***************************************************************************)
(* The user edits the scene in the GUI instance; the instance then calls   *)
(* its onChange callback, which is adapter.handleChange().                 *)
(***************************************************************************)
Colours == {"#ffffff", "#ffc9c9"}

EditedScenes(g) ==
  {[g EXCEPT !.elements = Append(@, "r")] : x \in {0} \cap (IF Len(g.elements) < MaxElements THEN {0} ELSE {})}
  \cup {[g EXCEPT !.elements = SubSeq(@, 1, Len(@) - 1)] : x \in {0} \cap (IF Len(g.elements) > 0 THEN {0} ELSE {})}
  \cup {[g EXCEPT !.appState = Put(@, "viewBackgroundColor", c)] : c \in Colours}

Edit ==
  \E g \in EditedScenes(gui) :
    /\ g # gui
    /\ gui' = g
    /\ LET r == handleChange(ad, g)
       IN  /\ ad' = r.ad
           /\ ev' = r.ev
    /\ op' = Op("edit", NoPending, FALSE)
    /\ UNCHANGED <<deferred, hyd, atLoad>>

(***************************************************************************)
(* The editor page before its first render has done anything.              *)
(***************************************************************************)
Files == {"A", "B"}
NoTimer == -1
\* window.setTimeout delays, in ticks of 200 ms
DEBOUNCE_TICKS == 2
GRACE_TICKS == 1

\* nothing subscribed, no codec function applied
NoCall == [fn |-> "none", arg |-> NullBlob, res |-> NullBlob]

\* no request has reached the backend
BackendIdle ==
  /\ db = InitDb
  /\ reqs = [i \in 1..MaxReqs |-> Idle]
  /\ hist = [calls |-> 0, overlapped |-> FALSE, kind |-> "idle", result |-> "none"]

SideIdle ==
  /\ listeners = <<>>
  /\ subs = <<>>
  /\ delivered = <<>>
  /\ codec = NoCall
  /\ BackendIdle

PageIdle ==
  /\ mounted = TRUE
  /\ fileId = "A"
  /\ currentFileId = "A"
  /\ loading = TRUE
  /\ dirty = FALSE
  /\ saving = FALSE
  /\ content = NullBlob
  /\ pendingBoardId = "none"
  /\ lastSavedAt = "null"
  /\ pendingAutoSave = FALSE
  /\ timer = NoTimer
  /\ grace = <<>>
  /\ inflight = <<>>
  /\ fetches = <<>>
  /\ store = [f \in Files |-> BraceBlob]
  /\ navTo = "none"
  /\ raf = FALSE
  /\ old = NoScene
  /\ owed = "no"
  /\ switches = 0

AdapterIdle ==
  /\ ad = AdapterInit
  /\ gui = FreshScene
  /\ deferred = <<>>
  /\ hyd = <<>>
  /\ ev = <<>>
  /\ op = Op("init", NoPending, FALSE)
  /\ atLoad = NoScene

AdapterSpecInit == AdapterIdle /\ PageIdle /\ SideIdle

\* The adapter under a client that calls load() once the instance is bound.
AdapterNext ==
  \/ \E b \in Blobs : ad.api # "null" /\ Load(b) /\ UNCHANGED <<pageVars, sideVars>>
  \/ \E ok \in BOOLEAN : LoadResume(ok) /\ UNCHANGED <<pageVars, sideVars>>
  \/ \E inst \in {"null", "live"} : BindApi(inst) /\ UNCHANGED <<pageVars, sideVars>>
  \/ MarkSaved /\ UNCHANGED <<pageVars, sideVars>>
  \/ HandleChange /\ UNCHANGED <<pageVars, sideVars>>
  \/ \E theme \in {"light", "dark"} : SetTheme(theme) /\ UNCHANGED <<pageVars, sideVars>>
  \/ Edit /\ UNCHANGED <<pageVars, sideVars>>
  \/ Serialize /\ UNCHANGED <<pageVars, sideVars>>

AdapterSpec == AdapterSpecInit /\ [][AdapterNext]_vars

\* The adapter under a client that calls load() before and after the
\* instance is bound, with bindApi's deferred callback as a step of its own.
BindNext ==
  \/ \E b \in Blobs : Load(b) /\ UNCHANGED <<pageVars, sideVars>>
  \/ \E ok \in BOOLEAN : LoadResume(ok) /\ UNCHANGED <<pageVars, sideVars>>
  \/ \E inst \in {"null", "live"} : BindApi(inst) /\ UNCHANGED <<pageVars, sideVars>>
  \/ DeferredLoad /\ UNCHANGED <<pageVars, sideVars>>
  \/ HandleChange /\ UNCHANGED <<pageVars, sideVars>>
  \/ \E k \in ScrollKinds : ScrollToContentCenter(k) /\ UNCHANGED <<pageVars, sideVars>>

BindSpec == AdapterSpecInit /\ [][BindNext]_vars

(***************************************************************************)
(* Editor page.  A step is one handler (a timer callback, a promise        *)
(* continuation, a click, a library callback) together with the render     *)
(* and the effects React runs for the state it set.                        *)
(***************************************************************************)
\* the page renders ExcalidrawWrapper only while it is not loading
wrapperMounted == mounted /\ ~loading

\* the instance the adapter's api field refers to
Inst == IF ad.api = "old" THEN old ELSE gui

\* the wrapper's listener: onDirtyChange(evt.dirty) for each change event
deliverDirty(evs, d) ==
  LET idx == {i \in 1..Len(evs) : evs[i].type = "change"}
  IN  IF idx = {} THEN d ELSE evs[CHOOSE i \in idx : \A j \in idx : j <= i].dirty

\* parseExcalidrawContent: the parts of a blob, normalised, for initialData
parseExcalidrawContent(b) ==
  Scene(b.elements, normalizeAppStateForCanvas(coerceCollaborators(b.appState)), b.files)

\* the scene of a new GUI instance: initialData is used for native blobs only
initialScene(c) ==
  IF c.kind = "json" /\ isOurSchema(c)
    THEN LET p == parseExcalidrawContent(c)
         IN  updateScene(FreshScene, p.elements, p.appState, p.files)
    ELSE FreshScene

\* a commit with a debounce effect whose only dependency is dirty
CommitDebounceOnDirty(d, s, l, f, pb, tm, nv) ==
  IF ~mounted
    THEN UNCHANGED <<dirty, saving, loading, currentFileId, pendingBoardId, timer, navTo>>
    ELSE /\ dirty' = d
         /\ saving' = s
         /\ loading' = l
         /\ currentFileId' = f
         /\ pendingBoardId' = IF pb # "none" /\ ~s /\ ~d THEN "none" ELSE pb
         /\ navTo' = IF pb # "none" /\ ~s /\ ~d THEN pb ELSE nv
         /\ timer' = IF d # dirty THEN (IF d THEN DEBOUNCE_TICKS ELSE NoTimer) ELSE tm

(***************************************************************************)
(* React commits the state a handler set (d: dirty, s: saving, l: loading, *)
(* f: currentFileId, pb: pendingBoardId) and runs the effects whose        *)
(* dependencies changed: the pending-board effect and the debounce effect. *)
(* tm is the debounce timer and nv the pending navigation as the handler   *)
(* left them.  State set on an unmounted component is dropped.             *)
(***************************************************************************)
Commit(d, s, l, f, pb, tm, nv) ==
  IF ~mounted
    THEN UNCHANGED <<dirty, saving, loading, currentFileId, pendingBoardId, timer, navTo>>
    ELSE /\ dirty' = d
         /\ saving' = s
         /\ loading' = l
         /\ currentFileId' = f
         /\ pendingBoardId' = IF pb # "none" /\ ~s /\ ~d THEN "none" ELSE pb
         /\ navTo' = IF pb # "none" /\ ~s /\ ~d THEN pb ELSE nv
         /\ timer' = IF <<d, s, l, f>> # <<dirty, saving, loading, currentFileId>>
                       THEN (IF d THEN DEBOUNCE_TICKS ELSE NoTimer)
                       ELSE tm

\* the adapter and the instance it refers to after an adapter call
SetAdapter(r) ==
  /\ ad' = r.ad
  /\ ev' = r.ev
  /\ IF ad.api = "old" THEN old' = r.gui /\ gui' = gui
                       ELSE gui' = r.gui /\ old' = old

(***************************************************************************)
(* performSave(source) as its closure sees the page: cl, cd, cs are the    *)
(* closure's loading, dirty and saving, file its currentFileId.            *)
(***************************************************************************)
saveDecision(cl, cd, cs) ==
  IF cl \/ ~cd THEN "skip" ELSE IF cs THEN "pend" ELSE "start"

\* the text performSave writes: JSON.stringify(adapter.serialize())
savedText == stringifyContent(serialize(Inst))

\* performSave from setSaving(true) to the await: the write is in flight
StartSave(file) ==
  /\ ad.api # "null"
  /\ Len(inflight) < MaxInFlight
  /\ inflight' = Append(inflight, [file |-> file, content |-> savedText, edited |-> FALSE])
  /\ owed' = IF owed = "due" THEN "fired" ELSE IF owed = "fired" THEN "twice" ELSE owed

\* a finally block without the isMountedRef check
armsGraceUnguarded == pendingAutoSave

\* the finally block of performSave: the grace-delay re-save
armsGrace == mounted /\ pendingAutoSave
FinallyBlock(file) ==
  /\ armsGrace => Len(grace) < MaxGrace
  /\ pendingAutoSave' = IF armsGrace THEN FALSE ELSE pendingAutoSave
  /\ grace' = IF armsGrace THEN Append(grace, [file |-> file, left |-> GRACE_TICKS]) ELSE grace

\* the debounce timer fires: performSave('auto') of the latest render
DebounceFire ==
  /\ mounted /\ timer = 0
  /\ LET dec == saveDecision(loading, dirty, saving)
     IN  /\ IF dec = "start" THEN StartSave(currentFileId) ELSE UNCHANGED <<inflight, owed>>
         /\ pendingAutoSave' = IF dec = "pend" THEN TRUE ELSE pendingAutoSave
         /\ Commit(dirty, IF dec = "start" THEN TRUE ELSE saving, loading, currentFileId,
                   pendingBoardId, NoTimer, navTo)
         /\ op' = Op("debounce", NoPending, dec = "start")
  /\ ev' = <<>>
  /\ UNCHANGED <<ad, gui, deferred, hyd, atLoad, mounted, fileId, switches, content, lastSavedAt,
                 grace, fetches, store, raf, old>>

\* a grace-delay timer fires: performSave('auto') of the render in which the
\* save that armed it was started (dirty, not saving, not loading, its file)
GraceFire(i) ==
  /\ i \in 1..Len(grace) /\ grace[i].left = 0
  /\ grace' = [j \in 1..(Len(grace) - 1) |-> IF j < i THEN grace[j] ELSE grace[j + 1]]
  /\ saveDecision(FALSE, TRUE, FALSE) = "start"
  /\ StartSave(grace[i].file)
  /\ Commit(dirty, TRUE, loading, currentFileId, pendingBoardId, timer, navTo)
  /\ op' = Op("grace", NoPending, TRUE)
  /\ ev' = <<>>
  /\ UNCHANGED <<ad, gui, deferred, hyd, atLoad, mounted, fileId, switches, content, lastSavedAt,
                 pendingAutoSave, fetches, store, raf, old>>

\* a performSave that calls markSaved() in its finally block
reachesMarkSavedAlways(ok) == TRUE

\* markSaved() and setLastSavedAt() follow the await inside the try block:
\* they run only when fileApi.update did not throw
reachesMarkSaved(ok) == ok

\* fileApi.update answers: the rest of performSave
SaveDone(i, ok) ==
  /\ i \in 1..Len(inflight)
  /\ inflight' = [j \in 1..(Len(inflight) - 1) |-> IF j < i THEN inflight[j] ELSE inflight[j + 1]]
  /\ FinallyBlock(inflight[i].file)
  /\ store' = IF ok THEN [store EXCEPT ![inflight[i].file] = inflight[i].content] ELSE store
  /\ owed' = IF ~ok THEN "no"
             ELSE IF inflight[i].edited /\ inflight[i].content # savedText THEN "due"
             ELSE owed
  /\ IF reachesMarkSaved(ok)
       THEN LET r == markSaved(ad, Inst)
            IN  /\ SetAdapter(r)
                /\ lastSavedAt' = IF mounted THEN "set" ELSE lastSavedAt
                /\ Commit(IF wrapperMounted THEN deliverDirty(r.ev, dirty) ELSE dirty,
                          FALSE, loading, currentFileId, pendingBoardId, timer, navTo)
       ELSE /\ ev' = <<>>
            /\ Commit(dirty, FALSE, loading, currentFileId, pendingBoardId, timer, navTo)
            /\ UNCHANGED <<ad, gui, old, lastSavedAt>>
  /\ op' = Op(IF ok THEN "saveOk" ELSE "saveFail", NoPending, armsGrace)
  /\ UNCHANGED <<deferred, hyd, atLoad, mounted, fileId, switches, content, fetches, raf>>

\* a click on board b in the sidebar
ClickBoard(b) ==
  /\ wrapperMounted /\ navTo = "none" /\ switches < MaxSwitches
  /\ pendingBoardId = "none" \/ b = pendingBoardId
  /\ ~(b = currentFileId /\ pendingBoardId = "none")
  /\ IF ~dirty /\ ~saving
       THEN /\ Commit(dirty, saving, loading, currentFileId, pendingBoardId, timer, b)
            /\ op' = Op("click", NoPending, FALSE)
            /\ UNCHANGED <<inflight, owed>>
       ELSE IF ~saving /\ dirty /\ saveDecision(loading, dirty, saving) = "start"
         THEN /\ StartSave(currentFileId)
              /\ Commit(dirty, TRUE, loading, currentFileId, b, timer, navTo)
              /\ op' = Op("click", NoPending, TRUE)
         ELSE /\ Commit(dirty, saving, loading, currentFileId, b, timer, navTo)
              /\ op' = Op("click", NoPending, FALSE)
              /\ UNCHANGED <<inflight, owed>>
  /\ ev' = <<>>
  /\ UNCHANGED <<ad, gui, deferred, hyd, atLoad, mounted, fileId, switches, content, lastSavedAt,
                 pendingAutoSave, grace, fetches, store, raf, old>>

\* the wrapper unmounts: its instance is gone from the page, its fallback
\* load is cancelled; the adapter keeps its reference to the instance
detached(a) == [a EXCEPT !.api = IF @ = "live" THEN "old" ELSE @]

\* router.push(`/editor/${id}`) takes effect: the route parameter changes,
\* currentFileId follows and loadFile() starts
NavArrive ==
  /\ mounted /\ navTo \in Files
  /\ fileId' = navTo
  /\ switches' = switches + 1
  /\ IF navTo # currentFileId
       THEN /\ fetches' = Append(fetches, navTo)
            /\ ad' = detached(ad)
            /\ old' = IF ad.api = "live" THEN gui ELSE old
            /\ raf' = FALSE
            /\ owed' = "no"
            /\ Commit(dirty, saving, TRUE, navTo, pendingBoardId, timer, "none")
       ELSE /\ Commit(dirty, saving, loading, currentFileId, pendingBoardId, timer, "none")
            /\ UNCHANGED <<fetches, ad, old, raf, owed>>
  /\ op' = Op("nav", NoPending, FALSE)
  /\ ev' = <<>>
  /\ UNCHANGED <<gui, deferred, hyd, atLoad, mounted, content, lastSavedAt,
                 pendingAutoSave, grace, inflight, store>>

\* the page unmounts (the user leaves the editor, or loadFile() failed and
\* pushed '/'): the effect cleanup clears the debounce timer, the wrapper
\* goes, and the component's state is discarded
Discard ==
  /\ mounted' = FALSE
  /\ timer' = NoTimer
  /\ raf' = FALSE
  /\ loading' = TRUE
  /\ dirty' = FALSE
  /\ saving' = FALSE
  /\ content' = NullBlob
  /\ pendingBoardId' = "none"
  /\ lastSavedAt' = "null"
  /\ navTo' = "none"
  /\ currentFileId' = fileId
  /\ owed' = "no"

Unmount ==
  /\ mounted
  /\ Discard
  /\ ad' = detached(ad)
  /\ old' = IF ad.api = "live" THEN gui ELSE old
  /\ op' = Op("unmount", NoPending, FALSE)
  /\ ev' = <<>>
  /\ UNCHANGED <<gui, deferred, hyd, atLoad, fileId, switches, pendingAutoSave, grace, inflight,
                 fetches, store>>

\* the wrapper's effects at mount, content c: subscribe, setTheme('light'),
\* load(c) unless c is null (the ref already holds null)
wrapperMount(a, g, c) ==
  LET t == setTheme(a, g, "light")
  IN  IF c.kind = "null" THEN [out |-> t, raf |-> FALSE]
      ELSE [out |-> loadSync(t.ad, t.gui, c).out, raf |-> TRUE]

\* fileApi.getById answers: the rest of loadFile().  On failure the page
\* toasts and pushes '/', which unmounts it.
FetchDone(ok) ==
  /\ fetches # <<>>
  /\ fetches' = Tail(fetches)
  /\ IF ~mounted
       THEN /\ ev' = <<>>
            /\ UNCHANGED <<ad, gui, old, content, lastSavedAt, raf, dirty, saving, loading,
                           currentFileId, pendingBoardId, timer, navTo, mounted, owed>>
       ELSE IF ok
         THEN LET c == store[Head(fetches)]
                  m == wrapperMount(ad, Inst, c)
              IN  /\ content' = c
                  /\ lastSavedAt' = "null"
                  /\ SetAdapter(m.out)
                  /\ raf' = m.raf
                  /\ Commit(deliverDirty(m.out.ev, FALSE), saving, FALSE,
                            currentFileId, pendingBoardId, timer, navTo)
                  /\ UNCHANGED <<mounted, owed>>
         ELSE /\ Discard
              /\ ev' = <<>>
              /\ UNCHANGED <<ad, gui, old>>
  /\ op' = Op("fetchDone", NoPending, ok)
  /\ UNCHANGED <<deferred, hyd, atLoad, fileId, switches, pendingAutoSave, grace, inflight, store>>

\* the ready listener of the wrapper: adapter.load(initialContent)
onReady(r, c) ==
  LET l == loadSync(r.ad, r.gui, c).out
  IN  Out(l.ad, l.gui, r.ev \o <<ReadyEvt>> \o l.ev)

\* the GUI library has mounted an instance and hands it to the wrapper,
\* which binds it: bindApi(api)
GuiReady ==
  /\ wrapperMounted /\ ad.api # "live"
  /\ LET g0 == initialScene(content)
         a1 == [ad EXCEPT !.api = "live", !.pendingContent = NoPending]
     IN  IF ad.pendingContent # NoPending
           THEN /\ Len(deferred) < MaxTasks
                /\ deferred' = Append(deferred, ad.pendingContent)
                /\ ad' = a1
                /\ gui' = g0
                /\ ev' = <<>>
                /\ Commit(dirty, saving, loading, currentFileId, pendingBoardId, timer, navTo)
           ELSE LET r == onReady(Out(a1, g0, <<>>), content)
                IN  /\ deferred' = deferred
                    /\ ad' = r.ad
                    /\ gui' = r.gui
                    /\ ev' = r.ev
                    /\ Commit(deliverDirty(r.ev, dirty), saving, loading, currentFileId,
                              pendingBoardId, timer, navTo)
  /\ op' = Op("guiReady", NoPending, FALSE)
  /\ UNCHANGED <<hyd, atLoad, mounted, fileId, switches, content, lastSavedAt, pendingAutoSave, grace,
                 inflight, fetches, store, raf, old, owed>>

\* bindApi's setTimeout(0) callback in the editor: load(pending), then ready
PageDeferredLoad ==
  /\ deferred # <<>>
  /\ deferred' = Tail(deferred)
  /\ LET r1 == loadSync(ad, Inst, Head(deferred)).out
         r == IF wrapperMounted THEN onReady(r1, content)
              ELSE Out(r1.ad, r1.gui, r1.ev \o <<ReadyEvt>>)
     IN  /\ SetAdapter(r)
         /\ Commit(IF wrapperMounted THEN deliverDirty(r.ev, dirty) ELSE dirty, saving, loading,
                   currentFileId, pendingBoardId, timer, navTo)
  /\ op' = Op("deferred", NoPending, FALSE)
  /\ UNCHANGED <<hyd, atLoad, mounted, fileId, switches, content, lastSavedAt, pendingAutoSave, grace,
                 inflight, fetches, store, raf, owed>>

\* the wrapper's fallback, two animation frames after its load effect
RafFallback ==
  /\ raf /\ wrapperMounted
  /\ raf' = FALSE
  /\ LET r == loadSync(ad, Inst, content).out
     IN  /\ SetAdapter(r)
         /\ Commit(deliverDirty(r.ev, dirty), saving, loading, currentFileId,
                   pendingBoardId, timer, navTo)
  /\ op' = Op("raf", NoPending, FALSE)
  /\ UNCHANGED <<deferred, hyd, atLoad, mounted, fileId, switches, content, lastSavedAt,
                 pendingAutoSave, grace, inflight, fetches, store, owed>>

\* the scenes one stroke away: an element drawn, or the last one erased
DrawnScenes(g) ==
  {[g EXCEPT !.elements = Append(@, "r")] : x \in IF Len(g.elements) < MaxElements THEN {0} ELSE {}}
  \cup {[g EXCEPT !.elements = SubSeq(@, 1, Len(@) - 1)] : x \in IF Len(g.elements) > 0 THEN {0} ELSE {}}

\* the user edits the scene; the instance calls onChange
PageEdit ==
  /\ wrapperMounted /\ ad.api = "live"
  /\ \E g \in DrawnScenes(gui) :
       /\ LET r == handleChange(ad, g)
          IN  /\ ad' = r.ad
              /\ gui' = g
              /\ ev' = r.ev
              /\ Commit(deliverDirty(r.ev, dirty), saving, loading, currentFileId,
                        pendingBoardId, timer, navTo)
  /\ inflight' = [i \in 1..Len(inflight) |-> [inflight[i] EXCEPT !.edited = TRUE]]
  /\ owed' = "no"
  /\ op' = Op("edit", NoPending, FALSE)
  /\ UNCHANGED <<deferred, hyd, atLoad, mounted, fileId, switches, content, lastSavedAt,
                 pendingAutoSave, grace, fetches, store, raf, old>>

\* the instance calls onChange without a change of the scene (a re-render)
PageChange ==
  /\ wrapperMounted /\ ad.api = "live"
  /\ LET r == handleChange(ad, gui)
     IN  /\ r.ad # ad
         /\ ad' = r.ad
         /\ ev' = r.ev
         /\ Commit(deliverDirty(r.ev, dirty), saving, loading, currentFileId,
                   pendingBoardId, timer, navTo)
  /\ op' = Op("handleChange", NoPending, FALSE)
  /\ UNCHANGED <<gui, deferred, hyd, atLoad, mounted, fileId, switches, content, lastSavedAt,
                 pendingAutoSave, grace, inflight, fetches, store, raf, old, owed>>

\* 200 ms pass: no timer is due, and the zero-delay callbacks have run
Tick ==
  /\ timer # 0
  /\ \A i \in 1..Len(grace) : grace[i].left > 0
  /\ deferred = <<>> /\ ~raf
  /\ timer > 0 \/ grace # <<>>
  /\ timer' = IF timer > 0 THEN timer - 1 ELSE timer
  /\ grace' = [i \in 1..Len(grace) |-> [grace[i] EXCEPT !.left = @ - 1]]
  /\ op' = Op("tick", NoPending, FALSE)
  /\ ev' = <<>>
  /\ UNCHANGED <<ad, gui, deferred, hyd, atLoad, mounted, fileId, switches, currentFileId, loading,
                 dirty, saving, content, pendingBoardId, lastSavedAt, pendingAutoSave,
                 inflight, fetches, store, navTo, raf, old, owed>>

\* the page after its first render: loadFile() has sent its request
Init ==
  /\ SideIdle
  /\ ad = AdapterInit
  /\ gui = FreshScene
  /\ deferred = <<>>
  /\ hyd = <<>>
  /\ ev = <<>>
  /\ op = Op("init", NoPending, FALSE)
  /\ atLoad = NoScene
  /\ mounted = TRUE
  /\ fileId = "A"
  /\ currentFileId = "A"
  /\ loading = TRUE
  /\ dirty = FALSE
  /\ saving = FALSE
  /\ content = NullBlob
  /\ pendingBoardId = "none"
  /\ lastSavedAt = "null"
  /\ pendingAutoSave = FALSE
  /\ timer = NoTimer
  /\ grace = <<>>
  /\ inflight = <<>>
  /\ fetches = <<"A">>
  /\ store = [f \in Files |-> IF f = "A" THEN BraceBlob
                              ELSE Json(NATIVE_SCHEMA, "1", <<"r">>, <<>>, <<>>)]
  /\ navTo = "none"
  /\ raf = FALSE
  /\ old = NoScene
  /\ owed = "no"
  /\ switches = 0

Next ==
  \/ \E ok \in BOOLEAN : FetchDone(ok) /\ UNCHANGED sideVars
  \/ GuiReady /\ UNCHANGED sideVars
  \/ PageDeferredLoad /\ UNCHANGED sideVars
  \/ RafFallback /\ UNCHANGED sideVars
  \/ PageEdit /\ UNCHANGED sideVars
  \/ PageChange /\ UNCHANGED sideVars
  \/ DebounceFire /\ UNCHANGED sideVars
  \/ \E i \in 1..MaxGrace : GraceFire(i) /\ UNCHANGED sideVars
  \/ \E i \in 1..MaxInFlight, ok \in BOOLEAN : SaveDone(i, ok) /\ UNCHANGED sideVars
  \/ \E b \in Files : ClickBoard(b) /\ UNCHANGED sideVars
  \/ NavArrive /\ UNCHANGED sideVars
  \/ Unmount /\ UNCHANGED sideVars
  \/ Tick /\ UNCHANGED sideVars

Spec == Init /\ [][Next]_vars

(***************************************************************************)
(* Timers fire and requests are answered; the zero-delay callback of       *)
(* bindApi and the wrapper's animation-frame fallback run once scheduled.  *)
(***************************************************************************)
LiveSpec ==
  /\ Spec
  /\ WF_vars(Tick /\ UNCHANGED sideVars)
  /\ WF_vars(DebounceFire /\ UNCHANGED sideVars)
  /\ WF_vars(\E i \in 1..MaxGrace : GraceFire(i) /\ UNCHANGED sideVars)
  /\ WF_vars(\E i \in 1..MaxInFlight, ok \in BOOLEAN :
               SaveDone(i, ok) /\ UNCHANGED sideVars)
  /\ []<>(deferred = <<>>)
  /\ []<>(~raf)

(***************************************************************************)
(* Properties of the autosave coordinator (Spec).                          *)
(***************************************************************************)
\* the writes in flight for document f
writesFor(f) == {i \in 1..Len(inflight) : inflight[i].file = f}

\* a save is scheduled or running
savePending == inflight # <<>> \/ grace # <<>> \/ timer # NoTimer

\* the last step started a save: setSaving(true), serialize(), fileApi.update
saveStarted == op.name \in {"debounce", "grace", "click"} /\ op.ok

\* C1: at most one store write is in flight at any time for a document,
\* whatever the order of timer fires, board switches and completions.
C1_OneWriteInFlight ==
  \A f \in Files : Cardinality(writesFor(f)) <= 1

\* C2: after a save that resolved with an edit made during its flight, the
\* page never settles (no save running or scheduled, the adapter not dirty)
\* with the live scene different from the content the store holds for the
\* open document.
C2_NoLostEdit ==
  (/\ wrapperMounted /\ ad.api = "live" /\ owed = "due"
   /\ navTo = "none" /\ pendingBoardId = "none"
   /\ ~savePending /\ ~ad.dirty)
    => store[currentFileId] = savedText

\* C3: when the content written by a save is older than the scene at the
\* moment the save resolves, exactly one more save follows (one is running
\* or scheduled until it has started, and no second one starts while the
\* scene stays as it is), and no two saves overlap.
C3_OneFollowUp ==
  /\ owed = "due" => savePending
  /\ owed # "twice"
  /\ Len(inflight) <= 1

\* C4: a save starts (serialize() and a store write) only while the adapter
\* reports dirty.
C4_NoSaveWhenClean ==
  [][Len(inflight') > Len(inflight) => ad.dirty]_vars

\* C5: a failed store write leaves the adapter's dirty flag and baseline as
\* they were, and the page's dirty state with them.
C5_FailureKeepsDirty ==
  [][op'.name = "saveFail" =>
       /\ ad'.dirty = ad.dirty
       /\ ad'.lastSavedSnapshot = ad.lastSavedSnapshot
       /\ dirty' = dirty]_vars

C5_Witness ==
  /\ op.name = "saveFail"
  /\ ad.dirty /\ dirty /\ mounted

\* C6: after a failed save, with the page mounted and still dirty, the
\* saving flag is clear and, unless the user edits, leaves or the document
\* stops being dirty, a new save is eventually started.
failedDirty == op.name = "saveFail" /\ mounted /\ ~loading /\ dirty

C6_RetryAfterFailure ==
  [](failedDirty =>
       /\ ~saving
       /\ <>(saveStarted \/ op.name = "edit" \/ ~mounted \/ loading \/ ~dirty))

C6_Witness ==
  /\ failedDirty
  /\ ~saving /\ timer = DEBOUNCE_TICKS /\ grace = <<>> /\ inflight = <<>>

C8_NoSaveAfterUnmount ==
  [][~mounted => Len(inflight') <= Len(inflight)]_vars

\* C32: no store write is issued while the board's content is being loaded:
\* no step taken while the page's loading flag is set starts a save (none
\* serializes the scene and puts a write in flight).
C32_NoSaveWhileLoading ==
  [][(mounted /\ loading) => Len(inflight') <= Len(inflight)]_vars

\* the pending-board effect ran in the last step: router.push(pendingBoardId)
pendingBoardPushed == pendingBoardId # "none" /\ pendingBoardId' = "none" /\ navTo' = pendingBoardId

\* C33: switching boards waits for the current board to be saved: the
\* pending-board effect navigates only in a state where no write is in
\* flight and the document is not dirty, and a click on a board made while
\* the document is dirty and no save is running starts a save.
C33_SwitchWaitsForSave ==
  [][/\ (mounted /\ pendingBoardPushed) =>
          (inflight' = <<>> /\ ~saving' /\ ~dirty' /\ ~ad'.dirty)
     /\ (op'.name = "click" /\ dirty /\ ~saving) =>
          Len(inflight') = Len(inflight) + 1]_vars

\* the adapter refers to the instance the wrapper mounted for the document
\* now open: a route change detaches the instance of the document left, and
\* the next instance is created from the content fetched for currentFileId
canvasHoldsCurrent == mounted /\ ad.api = "live"

\* C34: every store write carries the content of the document it is
\* addressed to: no save started after the canvas was loaded with the
\* document now open (the scene it serializes is that canvas) is addressed
\* to another document.
C34_WriteCarriesOwnDocument ==
  [][(Len(inflight') > Len(inflight) /\ canvasHoldsCurrent) =>
       inflight'[Len(inflight')].file = currentFileId]_vars

(***************************************************************************)
(* Properties of the adapter (AdapterSpec).                                *)
(***************************************************************************)
\* the parts load() hands to the scene write for blob b
loadedParts(b) ==
  LET p == IF needsRestore(b) THEN restore(b.elements, b.appState, b.files) ELSE b
  IN  Scene(p.elements, normalizeAppStateForCanvas(coerceCollaborators(p.appState)), p.files)

loadFinished == op.name \in {"load", "loadResume"} /\ parses(op.blob) /\ op.ok

\* C9: for every blob that parses, right after load() on a bound adapter has
\* finished, isDirty() is false, the saved baseline is the snapshot of the
\* loaded content, and a change event with dirty=false was emitted.
C9_CleanAfterLoad ==
  loadFinished =>
    /\ ~ad.dirty
    /\ ad.lastSavedSnapshot = snapshotOf(loadedParts(op.blob))
    /\ gui.elements = loadedParts(op.blob).elements
    /\ \E i \in 1..Len(ev) : ev[i] = ChangeEvt(FALSE)

\* a foreign blob was hydrated and loaded, and the change event went out
C9_Witness ==
  /\ op.name = "loadResume" /\ op.ok
  /\ ev = <<ChangeEvt(FALSE)>>
  /\ gui.elements = <<"T">>

\* C10: after load(), for every sequence of edits each reported through
\* handleChange(), whenever the instance's elements, view state and files
\* equal what they were at load time, isDirty() is false.
C10_IdempotentEdit ==
  (atLoad # NoScene /\ gui = atLoad /\ op.name \in {"edit", "handleChange"}) => ~ad.dirty

\* event e is among the events s delivered by a step
emitted(e, s) == \E i \in 1..Len(s) : s[i] = e

C12_EmitOnlyOnFlip ==
  [][op'.name = "handleChange" =>
       /\ ev' # <<>> => (ad'.dirty # ad.dirty /\ ev' = <<ChangeEvt(ad'.dirty)>>)
       /\ (op.name = "handleChange" /\ gui' = gui) => ev' = <<>>]_vars

\* the second of two consecutive handleChange() calls on a bound adapter
\* whose scene differs from the baseline: the flag is set, nothing is emitted
C12_Witness ==
  /\ op.name = "handleChange" /\ op.after = "handleChange"
  /\ ad.api # "null" /\ ad.dirty /\ ev = <<>>

\* C13: with the GUI state unchanged since markSaved() or load() on a bound
\* adapter, handleChange() leaves isDirty() false, whatever the time and
\* whatever serialize() calls (each reading the clock) came in between; the
\* baseline is the triple of elements, view state and files.
C13_DirtyIgnoresClock ==
  [][(op'.name = "handleChange" /\ ad.api # "null"
        /\ (op.name = "markSaved" \/ (atLoad # NoScene /\ gui = atLoad)))
       => (~ad'.dirty /\ Len(ad'.lastSavedSnapshot) = 3)]_vars

\* C17: bindApi(null) sets the instance reference to null and changes
\* nothing else: the dirty flag, the saved baseline, the pending content,
\* the scene of the instance and the queued loads stay, no event is emitted.
C17_UnbindKeepsState ==
  [][(op'.name = "bindApi" /\ ad'.api = "null") =>
       /\ ad' = [ad EXCEPT !.api = "null"]
       /\ gui' = gui /\ ev' = <<>>
       /\ deferred' = deferred /\ hyd' = hyd]_vars

\* a dirty adapter with a saved baseline has just been unbound
C17_Witness ==
  /\ op.name = "bindApi" /\ ad.api = "null"
  /\ ad.dirty /\ ad.lastSavedSnapshot # NoSnapshot
  /\ ev = <<>>

\* a load() on a bound adapter fails in this step: its text does not parse,
\* or the hydration pass of its suspended continuation throws
loadFails ==
  /\ ad.api # "null"
  /\ \/ op'.name \in {"load", "deferred"} /\ ~parses(op'.blob)
     \/ op'.name = "loadResume" /\ ~op'.ok

\* C18: a load() on a bound adapter that fails on malformed text or in the
\* hydration pass emits an error event and no change event, and leaves the
\* adapter's fields (dirty flag, baseline, pending content) and the scene
\* of the instance as they were.
C18_FailedLoadKeepsState ==
  [][loadFails =>
       /\ ev' \in {<<ErrorEvt>>, <<ErrorEvt, ReadyEvt>>}
       /\ ad' = ad /\ gui' = gui]_vars

\* malformed text was loaded into a bound, dirty adapter with a baseline
C18_Witness ==
  /\ op.name = "load" /\ op.blob = BadBlob
  /\ ad.api # "null" /\ ad.dirty /\ ad.lastSavedSnapshot # NoSnapshot
  /\ ev = <<ErrorEvt>>

\* the number of error events among the events s of a step
errorCount(s) == Cardinality({i \in 1..Len(s) : s[i] = ErrorEvt})

C20_UnboundSerializeThrows ==
  [][(op'.name = "serialize" /\ ad.api = "null") =>
       /\ op'.threw /\ op'.blob = NoPending
       /\ ad' = ad /\ gui' = gui /\ ev' = <<>>]_vars

\* serialize() threw on a dirty adapter unbound from an instance that holds
\* a drawn element
C20_Witness ==
  /\ op.name = "serialize" /\ op.threw
  /\ ad.api = "null" /\ ad.dirty /\ gui.elements # <<>>

\* C21: serialize() right after a finished load(B) of a native-schema blob
\* B returns B's elements and files, and for every key of B's view state
\* the value B has for it (the instance may hold further keys of its own).
C21_RoundTrip ==
  [][(op.name = "load" /\ op.ok /\ isOurSchema(op.blob)
        /\ op'.name = "serialize" /\ ~op'.threw) =>
       /\ op'.blob.elements = op.blob.elements
       /\ op'.blob.files = op.blob.files
       /\ \A k \in Keys(op.blob.appState) :
            Get(op'.blob.appState, k) = Get(op.blob.appState, k)]_vars

\* C26: a load() of a parsable blob on a bound adapter waits for the
\* hydration pass exactly when the blob is foreign and has elements,
\* view-state keys or files, and writes no scene while it waits; its
\* continuation runs once and writes the hydrated elements; a load that
\* does not wait (native, or foreign and trivial) writes the blob's
\* elements as they are.
C26_HydrationExactlyWhenForeign ==
  [][/\ (op'.name \in {"load", "loadSuspend"} /\ ad.api # "null" /\ parses(op'.blob)) =>
          /\ (op'.name = "loadSuspend") <=>
               /\ ~(op'.blob.schema = NATIVE_SCHEMA /\ op'.blob.schemaVersion = "1")
               /\ op'.blob.elements # <<>> \/ op'.blob.appState # <<>> \/ op'.blob.files # <<>>
          /\ op'.name = "loadSuspend" =>
               gui' = gui /\ ev' = <<>> /\ Len(hyd') = Len(hyd) + 1
          /\ op'.name = "load" => gui'.elements = op'.blob.elements /\ hyd' = hyd
     /\ op'.name = "loadResume" =>
          /\ Len(hyd') = Len(hyd) - 1
          /\ ~isOurSchema(op'.blob)
          /\ op'.ok => gui'.elements =
                         [i \in 1..Len(op'.blob.elements) |-> restoreElement(op'.blob.elements[i])]]_vars

\* the hydrated elements of a foreign blob are in the instance and no load
\* is waiting any more
C26_Witness ==
  /\ op.name = "loadResume" /\ op.ok /\ ~isOurSchema(op.blob)
  /\ gui.elements = <<"T">> /\ hyd = <<>>

\* C27: setTheme() leaves the adapter's fields (dirty flag, saved baseline,
\* pending content) as they are and emits no event; on a bound adapter it
\* changes the theme key of the instance's view state and nothing else of
\* the scene, on an unbound adapter nothing at all.
C27_SetThemeFrame ==
  [][op'.name = "setTheme" =>
       /\ ad' = ad /\ ev' = <<>>
       /\ IF ad.api = "null" THEN gui' = gui
          ELSE /\ gui'.elements = gui.elements /\ gui'.files = gui.files
               /\ Get(gui'.appState, "theme") \in {"light", "dark"}
               /\ Keys(gui'.appState) = Keys(gui.appState) \cup {"theme"}
               /\ \A k \in Keys(gui.appState) \ {"theme"} :
                    Get(gui'.appState, k) = Get(gui.appState, k)]_vars

\* the theme of a bound, clean adapter with a saved baseline was set to dark
C27_Witness ==
  /\ op.name = "setTheme" /\ ad.api # "null"
  /\ Get(gui.appState, "theme") = "dark"
  /\ ~ad.dirty /\ ad.lastSavedSnapshot # NoSnapshot /\ ev = <<>>

\* C31: a theme change is not a document edit: when setTheme() is called
\* on a clean adapter right after load() or markSaved() and the instance then
\* calls handleChange(), isDirty() stays false and no change event with
\* dirty=true (the event on which the editor page arms its autosave) is
\* emitted.
C31_ThemeIsNotAnEdit ==
  [][(/\ op.name = "setTheme"
      /\ op.after \in {"load", "loadResume", "markSaved"}
      /\ ~ad.dirty
      /\ op'.name = "handleChange") =>
       (~ad'.dirty /\ ~emitted(ChangeEvt(TRUE), ev'))]_vars

\* a load() is between its parsing and its scene write
loadInProgress == hyd # <<>>

\* C36: load() on a bound adapter has no suspension point of its own: no
\* handleChange() or markSaved() runs between a load's parsing and its scene
\* write, and of two successive load() calls the scene and the saved
\* baseline end up being those of the later one (the continuation of the
\* earlier call does not write over a load() that finished after it began).
C36_LoadIsAtomic ==
  [][/\ loadInProgress => op'.name \notin {"handleChange", "markSaved"}
     /\ (loadInProgress /\ loadFinished /\ op'.name = "loadResume") =>
          (gui' = gui /\ ad'.lastSavedSnapshot = ad.lastSavedSnapshot)]_vars

(***************************************************************************)
(* Properties of binding and pending content (BindSpec).                   *)
(***************************************************************************)
\* C14: load() on an unbound adapter only records the blob as pending
\* content (null for a null blob): the GUI scene, the dirty flag, the saved
\* baseline and the queues of deferred and suspended loads stay as they
\* are, and no event is emitted.
C14_UnboundLoadOnlyRecords ==
  [][(op'.name = "load" /\ ad.api = "null") =>
       /\ ad' = [ad EXCEPT !.pendingContent =
                   IF op'.blob.kind = "null" THEN NoPending ELSE op'.blob]
       /\ gui' = gui /\ ev' = <<>>
       /\ deferred' = deferred /\ hyd' = hyd]_vars

\* a dirty adapter was unbound and then given a blob to load
C14_Witness ==
  /\ op.name = "load" /\ ad.api = "null"
  /\ op.blob.kind = "json" /\ ad.pendingContent = op.blob
  /\ ad.dirty /\ ev = <<>>

\* C15: bindApi(instance) right after a load(b) on the unbound adapter, the
\* last of any number of such loads, makes b and only b the content to
\* apply: either the deferred load queued by the bind is that of b, or the
\* scene and the saved baseline are already those of b.  This for every
\* blob, null included.
C15_LastLoadWins ==
  [][(op.name = "load" /\ ad.api = "null" /\ op'.name = "bindApi" /\ ad'.api # "null") =>
       \/ deferred' = Append(deferred, op.blob)
       \/ /\ deferred' = deferred
          /\ ad'.lastSavedSnapshot = snapshotOf(loadedParts(op.blob))
          /\ gui'.elements = loadedParts(op.blob).elements]_vars

\* C16: bindApi(instance) with pending content writes no scene and emits
\* nothing in its own tick and queues the deferred load; with nothing
\* pending it emits ready at once.  The step that ends the deferred load
\* emits ready last, after the change{dirty:false} or error event of that
\* load.
C16_ReadyAfterDeferredLoad ==
  [][/\ (op'.name = "bindApi" /\ ad'.api # "null") =>
          IF ad.pendingContent # NoPending
            THEN gui' = gui /\ ev' = <<>> /\ deferred' = Append(deferred, ad.pendingContent)
            ELSE gui' = gui /\ ev' = <<ReadyEvt>> /\ deferred' = deferred
     /\ (op'.name = "deferred" \/ (op'.name = "loadResume" /\ Head(hyd).ready)) =>
          ev' \in {<<ChangeEvt(FALSE), ReadyEvt>>, <<ErrorEvt, ReadyEvt>>}
     /\ op'.name = "deferredSuspend" => ev' = <<>>]_vars

\* C30: scrollToContentCenter() never throws, whether the adapter is bound
\* or not and whatever the instance's scrollToContent does, failing
\* included; it calls nothing when the adapter is unbound.
C30_ScrollNeverThrows ==
  op.name = "scrollToContentCenter" =>
    /\ ~op.threw
    /\ ad.api = "null" => ~op.ok

\* C35: a load() applied to the bound instance between bindApi(instance)
\* and the deferred one-tick load is not overwritten by the older pending
\* content: when the deferred callback runs in a state whose scene is the one
\* a load() wrote since the bind, the scene and the saved baseline stay
\* those of that load.
C35_DeferredKeepsLaterLoad ==
  [][(/\ deferred # <<>> /\ deferred' = Tail(deferred)
      /\ atLoad # NoScene /\ gui = atLoad) =>
       (gui' = gui /\ ad'.lastSavedSnapshot = ad.lastSavedSnapshot)]_vars

(***************************************************************************)
(* The codec's pure functions applied to sample inputs (CodecSpec).  A     *)
(* view state is made of an optional background colour, export flag, grid  *)
(* size and collaborators value; a blob of a schema tag, a version (the    *)
(* number 1 or 2, or the string '1'), elements and one of four view        *)
(* states.                                                                 *)
(***************************************************************************)
Opt(k, V) == {<<>>} \cup {<< <<k, v>> >> : v \in V}

Backgrounds ==
  {"null", "", "transparent", "Transparent", "#ffffff00", "#FFC9C900",
   "#ffffff", "#ffc9c9", "#000000", "#ff0000"}

ViewStates ==
  {a \o b \o c \o d :
     a \in Opt("viewBackgroundColor", Backgrounds),
     b \in Opt("exportBackground", {"null", "true", "false"}),
     c \in Opt("gridSize", {"20", "null"}),
     d \in Opt("collaborators", {"null", "obj0", "obj1", "arr0", "arr1", "map0"})}

CodecBlobs ==
  {Json(schema, ver, els, app, <<>>) :
     schema \in {"undefined", NATIVE_SCHEMA, "excalidraw"},
     ver \in {"undefined", "1", "'1'", "2"},
     els \in {<<>>, <<"t">>},
     app \in {<<>>, SampleAppState,
              << <<"collaborators", "obj1">> >>,
              << <<"viewBackgroundColor", "#ffc9c9">>, <<"collaborators", "arr1">> >>}}

\* the view-state preparation shared by load() and parseExcalidrawContent()
prepareAppState(v) == normalizeAppStateForCanvas(coerceCollaborators(v))

Call(fn, arg, res) == [fn |-> fn, arg |-> arg, res |-> res]

\* the inputs: one view state or one blob per behaviour
CodecInit ==
  /\ AdapterIdle
  /\ PageIdle
  /\ listeners = <<>>
  /\ subs = <<>>
  /\ delivered = <<>>
  /\ BackendIdle
  /\ \/ codec \in {Call("viewState", v, v) : v \in ViewStates}
     \/ codec \in {Call("blob", b, b) : b \in CodecBlobs}

Normalize ==
  /\ codec.fn = "viewState"
  /\ codec' = Call("normalize", codec.arg, normalizeAppStateForCanvas(codec.arg))

Prepare ==
  /\ codec.fn = "viewState"
  /\ codec' = Call("prepare", codec.arg, prepareAppState(codec.arg))

\* the preparation applied once more, to the view state it returned
PrepareAgain ==
  /\ codec.fn = "prepare"
  /\ codec' = Call("again", codec.res, prepareAppState(codec.res))

Detect ==
  /\ codec.fn = "blob"
  /\ codec' = Call("isOurSchema", codec.arg, isOurSchema(codec.arg))

Parse ==
  /\ codec.fn = "blob"
  /\ codec' = Call("parse", codec.arg, parseExcalidrawContent(codec.arg))

LoadParts ==
  /\ codec.fn = "blob"
  /\ codec' = Call("loadParts", codec.arg, loadedParts(codec.arg))

codecRest ==
  <<ad, gui, deferred, hyd, ev, op, atLoad, pageVars, listeners, subs, delivered,
    db, reqs, hist>>

CodecNext ==
  \/ Normalize /\ UNCHANGED codecRest
  \/ Prepare /\ UNCHANGED codecRest
  \/ PrepareAgain /\ UNCHANGED codecRest
  \/ Detect /\ UNCHANGED codecRest
  \/ Parse /\ UNCHANGED codecRest
  \/ LoadParts /\ UNCHANGED codecRest

CodecSpec == CodecInit /\ [][CodecNext]_vars

(***************************************************************************)
(* Event subscriptions (EventSpec): onEvent(cb) adds cb to the Set         *)
(* eventListeners and returns a function that deletes cb from it;          *)
(* emitEvent calls the members of the Set in its iteration order, which is *)
(* the order of insertion.  bindApi and markSaved are the emitting         *)
(* operations.                                                             *)
(***************************************************************************)
MaxSubs == 3
Callbacks == {"f", "g"}

Members(ls) == {ls[i] : i \in 1..Len(ls)}

\* Set.prototype.add
setAdd(ls, cb) == IF cb \in Members(ls) THEN ls ELSE Append(ls, cb)

\* Set.prototype.delete
setDelete(ls, cb) == SelectSeq(ls, LAMBDA x : x # cb)

\* emitEvent for each event of evs in turn: the calls made, in order
emitEvent(ls, evs) ==
  [k \in 1..(Len(evs) * Len(ls)) |->
     <<ls[((k - 1) % Len(ls)) + 1], evs[((k - 1) \div Len(ls)) + 1]>>]

OnEvent(cb) ==
  /\ Len(subs) < MaxSubs
  /\ listeners' = setAdd(listeners, cb)
  /\ subs' = Append(subs, [cb |-> cb, active |-> TRUE])
  /\ delivered' = <<>>
  /\ ev' = <<>>
  /\ op' = Op("onEvent", NoPending, FALSE)
  /\ UNCHANGED <<ad, gui, deferred, hyd, atLoad, pageVars, codec, db, reqs, hist>>

\* the function returned by the i-th onEvent() call is called
Unsubscribe(i) ==
  /\ i \in 1..Len(subs)
  /\ subs[i].active
  /\ listeners' = setDelete(listeners, subs[i].cb)
  /\ subs' = [subs EXCEPT ![i].active = FALSE]
  /\ delivered' = <<>>
  /\ ev' = <<>>
  /\ op' = Op("unsubscribe", NoPending, FALSE)
  /\ UNCHANGED <<ad, gui, deferred, hyd, atLoad, pageVars, codec, db, reqs, hist>>

\* an emitting operation with the calls its events lead to
EmitBindApi(inst) ==
  /\ BindApi(inst)
  /\ delivered' = emitEvent(listeners, ev')
  /\ UNCHANGED <<listeners, subs, codec, pageVars, db, reqs, hist>>

EmitMarkSaved ==
  /\ MarkSaved
  /\ delivered' = emitEvent(listeners, ev')
  /\ UNCHANGED <<listeners, subs, codec, pageVars, db, reqs, hist>>

EventNext ==
  \/ \E cb \in Callbacks : OnEvent(cb)
  \/ \E i \in 1..MaxSubs : Unsubscribe(i)
  \/ \E inst \in {"null", "live"} : EmitBindApi(inst)
  \/ EmitMarkSaved

EventSpec == AdapterSpecInit /\ [][EventNext]_vars

\* an emitting operation has just emitted
emitting == op.name \in {"bindApi", "markSaved"} /\ ev # <<>>

\* C28: a subscription whose unsubscribe function has not been called
\* receives every event emitted, whatever other subscriptions were made or
\* cancelled before, those with the same callback included.
C28_SubscriptionsIndependent ==
  emitting =>
    \A j \in 1..Len(subs) :
      subs[j].active =>
        \A k \in 1..Len(ev) : <<subs[j].cb, ev[k]>> \in Members(delivered)

\* the subscribers at a moment, in the order in which they subscribed: the
\* callbacks of the subscriptions not cancelled, each at its first one
RECURSIVE subscribersOf(_, _)
subscribersOf(ss, seen) ==
  IF ss = <<>> THEN <<>>
  ELSE IF Head(ss).active /\ Head(ss).cb \notin seen
    THEN <<Head(ss).cb>> \o subscribersOf(Tail(ss), seen \cup {Head(ss).cb})
    ELSE subscribersOf(Tail(ss), seen)

\* C29: the calls made by an emitting operation, within its step, are for
\* each event in turn one call per current subscriber, in the order in
\* which the subscribers subscribed.
C29_OrderedDelivery ==
  emitting => delivered = emitEvent(subscribersOf(subs, {}), ev)

(***************************************************************************)
(* Properties of the codec (CodecSpec).                                    *)
(***************************************************************************)
\* C22: the scene parseExcalidrawContent() returns for initialData and the
\* scene load() hands to updateScene have appState.collaborators absent or
\* an array, for native and foreign blobs, the hydrated ones included; where
\* no hydration intervenes an object has become the array of its values.
C22_CollaboratorsIsSequence ==
  codec.fn \in {"parse", "loadParts"} =>
    LET c == Get(codec.res.appState, "collaborators")
        c0 == Get(codec.arg.appState, "collaborators")
    IN  /\ c \in {"undefined", "arr0", "arr1"}
        /\ (codec.fn = "parse" \/ ~needsRestore(codec.arg)) =>
             /\ c0 = "obj0" => c = "arr0"
             /\ c0 = "obj1" => c = "arr1"
             /\ c0 = "undefined" => c = "undefined"

\* a foreign blob without collaborators was hydrated, which gave it a Map,
\* and load() hands the scene on with an array
C22_Witness ==
  /\ codec.fn = "loadParts" /\ needsRestore(codec.arg)
  /\ Get(codec.arg.appState, "collaborators") = "undefined"
  /\ Get(codec.res.appState, "collaborators") = "arr0"

\* a hex colour with an alpha channel whose byte is 00: #rrggbb00
hasZeroAlphaByte(c) ==
  /\ IsString(c) /\ Len(c) = 9
  /\ SubSeq(c, 1, 1) = "#" /\ SubSeq(c, 8, 9) = "00"

\* C23: normalisation sets the background colour to '#ffffff' when it is
\* absent (or null), empty, 'transparent' in any letter case, or a hex
\* colour with alpha byte 00, and keeps every other colour as it is, the
\* opaque 6-digit hex colours among them.
C23_BackgroundDefault ==
  codec.fn = "normalize" =>
    LET vbc == Get(codec.arg, "viewBackgroundColor")
        out == Get(codec.res, "viewBackgroundColor")
    IN  IF \/ vbc \in {"undefined", "null"}
           \/ vbc = ""
           \/ toLowerCase(vbc) = "transparent"
           \/ hasZeroAlphaByte(vbc)
          THEN out = "#ffffff"
          ELSE out = vbc

\* C24: the view-state preparation (collaborators coercion, then background
\* colour, export-background default and grid-off) applied to a view state
\* it has returned gives that view state back, keys in the same order.
C24_NormalizeIdempotent == codec.fn = "again" => codec.res = codec.arg

\* a prepared view state with every normalised key was prepared again
C24_Witness ==
  /\ codec.fn = "again" /\ codec.res = codec.arg
  /\ Get(codec.arg, "viewBackgroundColor") = "#ffffff"
  /\ Get(codec.arg, "exportBackground") = "true"
  /\ Get(codec.arg, "gridSize") = "null"
  /\ Get(codec.arg, "collaborators") = "arr1"

\* C25: a blob is detected as native when its schema tag is the native one
\* and its schemaVersion is the number 1; with the tag absent, with another
\* tag, and with the native tag and any other version (absent, 2, the
\* string '1') it is detected as foreign.
C25_SchemaDetection ==
  codec.fn = "isOurSchema" =>
    /\ (codec.arg.schema = NATIVE_SCHEMA /\ codec.arg.schemaVersion = "1") => codec.res
    /\ codec.arg.schema = "undefined" => ~codec.res
    /\ codec.arg.schema \notin {"undefined", NATIVE_SCHEMA} => ~codec.res
    /\ (codec.arg.schema = NATIVE_SCHEMA /\ codec.arg.schemaVersion # "1") => ~codec.res

\* a blob with the native tag and version 2 was detected as foreign
C25_Witness ==
  /\ codec.fn = "isOurSchema" /\ ~codec.res
  /\ codec.arg.schema = NATIVE_SCHEMA /\ codec.arg.schemaVersion = "2"

(***************************************************************************)
(* Backend requests as steps (FsSpec).  A request arrives and runs up to   *)
(* the answer of its first database call; each later step is the next      *)
(* database call of one request in flight.                                 *)
(***************************************************************************)
freeSlots == {i \in 1..MaxReqs : reqs[i] = Idle}

Arrive(kind, id, parent, name) ==
  /\ hist.calls < MaxCalls
  /\ freeSlots # {}
  /\ LET s == serviceCall(db, [Idle EXCEPT !.kind = kind, !.id = id, !.parent = parent,
                                           !.name = name, !.pc = "start"])
     IN  /\ db' = s.db
         /\ reqs' = [reqs EXCEPT ![CHOOSE i \in freeSlots : TRUE] = s.req]
         /\ hist' = [calls |-> hist.calls + 1,
                     overlapped |-> hist.overlapped \/ freeSlots # 1..MaxReqs,
                     kind |-> kind,
                     result |-> s.result]
  /\ UNCHANGED <<adapterVars, pageVars, listeners, subs, delivered, codec>>

\* a createFolder request, while an id is left for the row it may create
CreateFolder(parentId, name) ==
  /\ Cardinality(freeIds(db.folders)) >
       Cardinality({i \in 1..MaxReqs : reqs[i].kind = "createFolder"})
  /\ Arrive("createFolder", NULL, parentId, name)

UpdateFolder(id, parentId, name) == Arrive("updateFolder", id, parentId, name)

DeleteFolder(id) == Arrive("deleteFolder", id, Undefined, "")

CreateFile(folderId, name) ==
  /\ Cardinality(freeIds(db.files)) >
       Cardinality({i \in 1..MaxReqs : reqs[i].kind = "createFile"})
  /\ Arrive("createFile", NULL, folderId, name)

UpdateFile(id, folderId, name) == Arrive("updateFile", id, folderId, name)

\* the database answers the call request i is waiting for
Resume(i) ==
  /\ reqs[i] # Idle
  /\ LET s == serviceCall(db, reqs[i])
     IN  /\ db' = s.db
         /\ reqs' = [reqs EXCEPT ![i] = s.req]
         /\ hist' = [hist EXCEPT !.kind = reqs[i].kind, !.result = s.result]
  /\ UNCHANGED <<adapterVars, pageVars, listeners, subs, delivered, codec>>

FsNext ==
  \/ \E p \in {NULL} \cup FolderIds, n \in {"a", "b", "a ", ""} : CreateFolder(p, n)
  \/ \E f \in FolderIds, p \in {Undefined, NULL} \cup FolderIds, n \in {"", "a", "b"} :
       UpdateFolder(f, p, n)
  \/ \E f \in FolderIds : DeleteFolder(f)
  \/ \E p \in {NULL} \cup FolderIds, n \in {"", "a"} : CreateFile(p, n)
  \/ \E x \in FileIds, p \in {Undefined, NULL} \cup FolderIds, n \in {"", "a"} :
       UpdateFile(x, p, n)
  \/ \E i \in 1..MaxReqs : Resume(i)

FsSpec == AdapterSpecInit /\ [][FsNext]_vars

(***************************************************************************)
(* Properties of the folder and file services (FsSpec).                    *)
(***************************************************************************)
\* C37: folder depth never exceeds 2: every folder either has no parent or
\* has a parent that itself has no parent, whatever requests were made and
\* however their database calls interleaved.
C37_DepthAtMostTwo ==
  \A f \in FolderIds :
    live(db.folders, f) =>
      \/ db.folders[f].parentId = NULL
      \/ db.folders[db.folders[f].parentId].parentId = NULL

\* C38: after any sequence of createFolder and updateFolder calls, each
\* made after the one before it has returned, no two folders with the same
\* parent (the top level included) have the same name.
C38_SiblingNamesUnique ==
  ~hist.overlapped =>
    \A f, g \in FolderIds :
      (f # g /\ live(db.folders, f) /\ live(db.folders, g)) =>
        ~(/\ db.folders[f].parentId = db.folders[g].parentId
          /\ db.folders[f].name = db.folders[g].name)

\* C39: every file belongs to an existing folder, and deleteFolder removes a
\* folder only when it has no child folder and no file.
C39_FilesHaveFolders ==
  /\ [](\A x \in FileIds :
          live(db.files, x) => live(db.folders, db.files[x].folderId))
  /\ [][\A f \in FolderIds :
          (live(db.folders, f) /\ ~live(db.folders', f)) =>
            /\ rowsUnder(db.folders, "parentId", f) = {}
            /\ rowsUnder(db.files, "folderId", f) = {}]_vars

====
